---- MODULE Spec2Model ----
(***************************************************************************)
(* A model of xpath_syntax_tree.py: the path compiler                      *)
(* (xpath_to_syntax_tree), the predicate compiler (_predicate_to_postfix,  *)
(* _predicate_postfix_to_tree, _precedence) and the evaluate methods of    *)
(* the expression classes.                                                 *)
(*                                                                         *)
(* A Python string is a sequence of one-character strings, so that         *)
(* startswith, slicing, the regular expressions and the ordering of        *)
(* strings are computed as the code computes them.  A Python list is a     *)
(* sequence.  A document node is a number; its name, attributes and        *)
(* children are read from the variable doc.  A raised exception is a       *)
(* result whose err field names the exception.                             *)
(***************************************************************************)
EXTENDS Integers, Sequences, FiniteSets, TLC

VARIABLES
    doc,        \* the document: name, attrs and parent of every node
    tokens,     \* the token list of the query
    pipeline,   \* the list of expressions xpath_to_syntax_tree returned
    pc,         \* "start", "compiled", "done" or "error"
    idx,        \* the position in pipeline of the next expression to evaluate
    kind,       \* what the last evaluate returned: "pair", "none" or "scalars"
    selected,   \* the first component of the last result
    rejected,   \* the second component of the last result
    inSel,      \* the node_set_pos the last evaluate was called with
    inRej,      \* the node_set_neg the last evaluate was called with
    initSel,    \* the initial candidates
    initRej,    \* the initial rejected list
    err         \* the exception raised, "none" when none

vars == <<doc, tokens, pipeline, pc, idx, kind, selected, rejected, inSel, inRej,
          initSel, initRej, err>>

(***************************************************************************)
(* Bounds                                                                  *)
(***************************************************************************)
NumNodes == 3

Nodes == 1..NumNodes

(***************************************************************************)
(* Characters and strings                                                  *)
(***************************************************************************)
Digits == {"0", "1", "2", "3", "4", "5", "6", "7", "8", "9"}

Letters == {"a", "b", "c", "d", "e", "f", "g", "h", "i", "j", "k", "l", "m",
            "n", "o", "p", "q", "r", "s", "t", "u", "v", "w", "x", "y", "z"}

\* the characters of the model in code point order
Alphabet == <<"!", "'", "(", ")", "*", "+", ",", "-", "/",
              "0", "1", "2", "3", "4", "5", "6", "7", "8", "9",
              "<", "=", ">", "@", "[", "]",
              "a", "b", "c", "d", "e", "f", "g", "h", "i", "j", "k", "l", "m",
              "n", "o", "p", "q", "r", "s", "t", "u", "v", "w", "x", "y", "z",
              "{", "}">>

Ord(c) == CHOOSE i \in 1..Len(Alphabet) : Alphabet[i] = c

DigitVal(c) == Ord(c) - Ord("0")

Range(s) == {s[i] : i \in 1..Len(s)}

Last(s) == s[Len(s)]

Front(s) == SubSeq(s, 1, Len(s) - 1)

\* str.startswith
startswith(s, p) == Len(p) <= Len(s) /\ SubSeq(s, 1, Len(p)) = p

\* str.endswith
endswith(s, p) == Len(p) <= Len(s) /\ SubSeq(s, Len(s) - Len(p) + 1, Len(s)) = p

\* the operator "in" on two strings
contains(s, p) == \E i \in 1..(Len(s) - Len(p) + 1) : SubSeq(s, i, i + Len(p) - 1) = p

\* the operator < on two strings: lexicographic on code points
RECURSIVE StrLess(_, _)
StrLess(s, t) ==
    IF t = <<>> THEN FALSE
    ELSE IF s = <<>> THEN TRUE
    ELSE IF Ord(Head(s)) # Ord(Head(t)) THEN Ord(Head(s)) < Ord(Head(t))
    ELSE StrLess(Tail(s), Tail(t))

\* int(txt) of a string of digits
RECURSIVE ParseInt(_)
ParseInt(s) == IF s = <<>> THEN 0 ELSE 10 * ParseInt(Front(s)) + DigitVal(Last(s))

(***************************************************************************)
(* Tokens                                                                  *)
(***************************************************************************)
tSlash == <<"/">>
tSlashSlash == <<"/", "/">>
tStar == <<"*">>
tLBrack == <<"[">>
tRBrack == <<"]">>
tLParen == <<"(">>
tRParen == <<")">>
tLBrace == <<"{">>
tRBrace == <<"}">>
tComma == <<",">>
tSpace == <<" ">>
tGt == <<">">>
tGe == <<">", "=">>
tLt == <<"<">>
tLe == <<"<", "=">>
tEq == <<"=">>
tNe == <<"!", "=">>
tPlus == <<"+">>
tMinus == <<"-">>
tMul == <<"m", "u", "l">>
tDiv == <<"d", "i", "v">>
tAnd == <<"a", "n", "d">>
tOr == <<"o", "r">>
tNot == <<"n", "o", "t">>
tText == <<"t", "e", "x", "t">>
tContains == <<"c", "o", "n", "t", "a", "i", "n", "s">>
tStartsWith == <<"s", "t", "a", "r", "t", "s", "-", "w", "i", "t", "h">>
tEndsWith == <<"e", "n", "d", "s", "-", "w", "i", "t", "h">>
tLength == <<"l", "e", "n", "g", "t", "h">>

(***************************************************************************)
(* Values and expressions                                                  *)
(***************************************************************************)
NoneVal == [t |-> "none", s |-> <<>>, n |-> 0]

StrVal(s) == [t |-> "str", s |-> s, n |-> 0]

IntVal(n) == [t |-> "int", s |-> <<>>, n |-> n]

\* Expression.__init__ and add_child: a class name, a value, the children
Expression(cls, value, children) == [cls |-> cls, value |-> value, children |-> children]

AttributeName(txt) == Expression("AttributeName", StrVal(Tail(txt)), <<>>)

StringLiteral(txt) == Expression("StringLiteral", StrVal(SubSeq(txt, 2, Len(txt) - 1)), <<>>)

NumberLiteral(txt) == Expression("NumberLiteral", IntVal(ParseInt(txt)), <<>>)

\* a wrong step for the token '/': the step of the token '//'
SelectFromRootNode_all == Expression("SelectAll", NoneVal, <<>>)

SelectFromRootNode == Expression("SelectFromRootNode", NoneVal, <<>>)

SelectAll == Expression("SelectAll", NoneVal, <<>>)

SelectStar == Expression("SelectStar", NoneVal, <<>>)

SelectHTMLTag(tag_name) == Expression("SelectHTMLTag", StrVal(tag_name), <<>>)

SelectText == Expression("SelectText", NoneVal, <<>>)

SelectAttribute(attribute_name) == Expression("SelectAttribute", StrVal(Tail(attribute_name)), <<>>)

ComparisonClasses == {"GreaterThan", "GreaterThanOrEqual", "SmallerThan",
                      "SmallerThanOrEqual", "Equal", "NotEqual"}

OperandClasses == {"AttributeName", "NumberLiteral", "StringLiteral"}

TextClasses == {"TextContains", "TextStartsWith", "TextEndsWith"}

(***************************************************************************)
(* Results of a call: a value or a raised exception                        *)
(***************************************************************************)
Ok(v) == [err |-> "none", val |-> v]

Raise(e) == [err |-> e, val |-> <<>>]

(***************************************************************************)
(* The predicate compiler                                                  *)
(***************************************************************************)
l_b == {tLParen, tLBrace, tLBrack}

r_b == {tRParen, tRBrace, tRBrack}

precedence(xpath_operator) ==
    IF xpath_operator = tEq THEN 1
    ELSE IF xpath_operator = tOr THEN 2
    ELSE IF xpath_operator = tAnd THEN 3
    ELSE IF xpath_operator \in {tGt, tGe, tLt, tLe} THEN 4
    ELSE IF xpath_operator \in {tPlus, tMinus} THEN 5
    ELSE IF xpath_operator \in {tMul, tDiv} THEN 6
    ELSE IF xpath_operator = tNot THEN 7
    ELSE 8

is_left_associative(xpath_operator) == TRUE

\* the test of lines 714-715
is_operand(t) == startswith(t, <<"@">>) \/ startswith(t, <<"'">>)

\* the loop of lines 706-707: pop operators to the output down to a left bracket
RECURSIVE PopToBracket(_, _)
PopToBracket(out, operator_stack) ==
    IF Len(operator_stack) > 0 /\ Last(operator_stack) \notin l_b
    THEN PopToBracket(Append(out, Last(operator_stack)), Front(operator_stack))
    ELSE [out |-> out, operator_stack |-> operator_stack]

\* the loop of lines 728-734: pop the operators that bind at least as tightly as t
RECURSIVE PopOperators(_, _, _)
PopOperators(out, operator_stack, t) ==
    IF /\ Len(operator_stack) > 0
       /\ Last(operator_stack) \notin l_b
       /\ \/ precedence(Last(operator_stack)) > precedence(t)
          \/ (precedence(Last(operator_stack)) = precedence(t) /\ is_left_associative(t))
    THEN PopOperators(Append(out, Last(operator_stack)), Front(operator_stack), t)
    ELSE [out |-> out, operator_stack |-> operator_stack]

\* the while loop of _predicate_to_postfix from position i (1-based)
RECURSIVE PostfixLoop(_, _, _, _)
PostfixLoop(expr, i, out, operator_stack) ==
    IF i > Len(expr) THEN Ok(out)
    ELSE LET t == expr[i] IN
         IF t = tComma THEN PostfixLoop(expr, i + 1, out, operator_stack)
         ELSE IF t = tSpace THEN PostfixLoop(expr, i + 1, out, operator_stack)
         ELSE IF t \in l_b THEN PostfixLoop(expr, i + 1, out, Append(operator_stack, t))
         ELSE IF t \in r_b THEN
              LET p == PopToBracket(out, operator_stack) IN
              IF Len(p.operator_stack) = 0 THEN Raise("IndexError")
              ELSE PostfixLoop(expr, i + 1, p.out, Front(p.operator_stack))
         ELSE IF is_operand(t) THEN PostfixLoop(expr, i + 1, Append(out, t), operator_stack)
         ELSE LET p == PopOperators(out, operator_stack, t) IN
              PostfixLoop(expr, i + 1, p.out, Append(p.operator_stack, t))

predicate_to_postfix(xpath_predicate_expression) ==
    PostfixLoop(xpath_predicate_expression, 1, <<>>, <<>>)

\* Cls().add_child(tree.pop(-1)).add_child(tree.pop(-1))
BinaryNode(cls, tree) ==
    IF Len(tree) < 2 THEN Raise("IndexError")
    ELSE Ok(Append(SubSeq(tree, 1, Len(tree) - 2),
                   Expression(cls, NoneVal, <<tree[Len(tree)], tree[Len(tree) - 1]>>)))

\* Cls().add_child(tree.pop(-1))
UnaryNode(cls, tree) ==
    IF Len(tree) < 1 THEN Raise("IndexError")
    ELSE Ok(Append(Front(tree), Expression(cls, NoneVal, <<Last(tree)>>)))

\* the body of the for loop of _predicate_postfix_to_tree for one token
TreeStep(t, tree) ==
    IF startswith(t, <<"@">>) THEN Ok(Append(tree, AttributeName(t)))
    ELSE IF startswith(t, <<"'">>) THEN Ok(Append(tree, StringLiteral(t)))
    ELSE IF Len(t) > 0 /\ t[1] \in Digits THEN
         IF Range(t) \subseteq Digits THEN Ok(Append(tree, NumberLiteral(t)))
         ELSE Raise("ValueError")
    ELSE IF t = tGt THEN BinaryNode("GreaterThan", tree)
    ELSE IF t = tGe THEN BinaryNode("GreaterThanOrEqual", tree)
    ELSE IF t = tLt THEN BinaryNode("SmallerThan", tree)
    ELSE IF t = tLe THEN BinaryNode("SmallerThanOrEqual", tree)
    ELSE IF t = tEq THEN BinaryNode("Equal", tree)
    ELSE IF t = tNe THEN BinaryNode("NotEqual", tree)
    ELSE IF t = tAnd THEN BinaryNode("LogicalAnd", tree)
    ELSE IF t = tOr THEN BinaryNode("LogicalOr", tree)
    ELSE IF t = tNot THEN UnaryNode("LogicalNot", tree)
    ELSE IF t = tEndsWith THEN BinaryNode("TextEndsWith", tree)
    ELSE IF t = tStartsWith THEN BinaryNode("TextStartsWith", tree)
    ELSE IF t = tContains THEN BinaryNode("TextContains", tree)
    ELSE IF t = tLength THEN UnaryNode("TextLength", tree)
    ELSE Ok(tree)

RECURSIVE TreeLoop(_, _, _)
TreeLoop(postfix, k, tree) ==
    IF k > Len(postfix) THEN Ok(tree)
    ELSE LET r == TreeStep(postfix[k], tree) IN
         IF r.err # "none" THEN r ELSE TreeLoop(postfix, k + 1, r.val)

predicate_postfix_to_tree(xpath_postfix_predicate_expression) ==
    LET r == TreeLoop(xpath_postfix_predicate_expression, 1, <<>>) IN
    IF r.err # "none" THEN r
    ELSE IF Len(r.val) = 0 THEN Raise("IndexError")
    ELSE Ok(r.val[1])

\* the predicate compiler on one inclusive [ ... ] slice (line 549)
CompilePredicate(slice) ==
    LET p == predicate_to_postfix(slice) IN
    IF p.err # "none" THEN p ELSE predicate_postfix_to_tree(p.val)

(***************************************************************************)
(* The path compiler                                                       *)
(***************************************************************************)
\* tokens.index(']', i): the first position >= i that holds ']', 0 when none
IndexOfRBrack(toks, i) ==
    IF \E j \in i..Len(toks) : toks[j] = tRBrack
    THEN CHOOSE j \in i..Len(toks) : toks[j] = tRBrack /\ \A k \in i..(j - 1) : toks[k] # tRBrack
    ELSE 0

\* re.compile('^[a-zA-Z]+$').match
IsTagName(t) == Len(t) > 0 /\ Range(t) \subseteq Letters

RECURSIVE PathLoop(_, _, _)
PathLoop(toks, i, nodes) ==
    IF i > Len(toks) THEN Ok(nodes)
    ELSE IF toks[i] = tLBrack THEN
         LET j == IndexOfRBrack(toks, i) IN
         IF j = 0 THEN Raise("ValueError")
         ELSE LET r == CompilePredicate(SubSeq(toks, i, j)) IN
              IF r.err # "none" THEN r ELSE PathLoop(toks, j + 1, Append(nodes, r.val))
    ELSE IF toks[i] = tSlash THEN PathLoop(toks, i + 1, Append(nodes, SelectFromRootNode))
    ELSE IF toks[i] = tSlashSlash THEN PathLoop(toks, i + 1, Append(nodes, SelectAll))
    ELSE IF toks[i] = tStar THEN PathLoop(toks, i + 1, Append(nodes, SelectStar))
    ELSE IF startswith(toks[i], <<"@">>) THEN PathLoop(toks, i + 1, Append(nodes, SelectAttribute(toks[i])))
    ELSE IF toks[i] = tText THEN
         IF i + 1 > Len(toks) THEN Raise("IndexError")
         ELSE IF toks[i + 1] # tLParen THEN PathLoop(toks, i + 1, Append(nodes, SelectText))
         ELSE IF i + 2 > Len(toks) THEN Raise("IndexError")
         ELSE IF toks[i + 2] = tRParen THEN PathLoop(toks, i + 3, Append(nodes, SelectText))
         ELSE PathLoop(toks, i + 1, Append(nodes, SelectText))
    ELSE IF IsTagName(toks[i]) THEN PathLoop(toks, i + 1, Append(nodes, SelectHTMLTag(toks[i])))
    ELSE PathLoop(toks, i + 1, nodes)

\* xpath_to_syntax_tree on the token list the tokenizer returned
xpath_to_syntax_tree(toks) == PathLoop(toks, 1, <<>>)

(***************************************************************************)
(* Document nodes: x.name, x.attrs, x.find_all()                           *)
(***************************************************************************)
name(x) == doc.name[x]

attrs(x) == doc.attrs[x]

\* key in x.attrs, for a key that may be None
HasAttr(x, key) == key.t = "str" /\ key.s \in DOMAIN attrs(x)

\* x.attrs[key] as a value
AttrVal(x, key) == StrVal(attrs(x)[key.s])

ChildrenOf(x) == {y \in Nodes : doc.parent[y] = x}

RECURSIVE SetToSeq(_)
SetToSeq(S) ==
    IF S = {} THEN <<>>
    ELSE LET m == CHOOSE y \in S : \A z \in S : y <= z IN <<m>> \o SetToSeq(S \ {m})

\* x.find_all(): the descendants of x in document order, x excluded
RECURSIVE find_all(_)
RECURSIVE FindAllOfSeq(_)
FindAllOfSeq(s) ==
    IF s = <<>> THEN <<>>
    ELSE <<Head(s)>> \o find_all(Head(s)) \o FindAllOfSeq(Tail(s))

find_all(x) == FindAllOfSeq(SetToSeq(ChildrenOf(x)))

\* list(set(s)): the elements of s once each
Dedup(s) == SetToSeq(Range(s))

(***************************************************************************)
(* evaluate: the result is a pair (pos, neg), None, a list of scalars, or  *)
(* a raised exception                                                      *)
(***************************************************************************)
Pair(pos, neg) == [kind |-> "pair", pos |-> pos, neg |-> neg, err |-> "none"]

NoneResult == [kind |-> "none", pos |-> <<>>, neg |-> <<>>, err |-> "none"]

Scalars(vals) == [kind |-> "scalars", pos |-> vals, neg |-> <<>>, err |-> "none"]

\* [x.text for x in node_set_pos]: the text of node x is written <<"text", x>>
SelectText_evaluate(node_set_pos) ==
    Scalars([i \in 1..Len(node_set_pos) |-> <<"text", node_set_pos[i]>>])

\* [(x.attrs[n] if n in x.attrs else '') for x in node_set_pos]
SelectAttribute_evaluate(e, node_set_pos) ==
    Scalars([i \in 1..Len(node_set_pos) |->
                IF HasAttr(node_set_pos[i], e.value)
                THEN attrs(node_set_pos[i])[e.value.s] ELSE <<>>])

Error(e) == [kind |-> "error", pos |-> <<>>, neg |-> <<>>, err |-> e]

\* a Python comparison of two values: "true", "false" or "TypeError"
Less(a, b) ==
    IF a.t = "str" /\ b.t = "str" THEN (IF StrLess(a.s, b.s) THEN "true" ELSE "false")
    ELSE IF a.t = "int" /\ b.t = "int" THEN (IF a.n < b.n THEN "true" ELSE "false")
    ELSE "TypeError"

Negate(r) == IF r = "true" THEN "false" ELSE IF r = "false" THEN "true" ELSE r

Same(a, b) == IF a = b THEN "true" ELSE "false"

\* l.value OP r.value for the operator of the comparison class cls
Compare(cls, a, b) ==
    CASE cls = "GreaterThan" -> Less(b, a)
      [] cls = "GreaterThanOrEqual" -> Negate(Less(a, b))
      [] cls = "SmallerThan" -> Less(a, b)
      [] cls = "SmallerThanOrEqual" -> Negate(Less(b, a))
      [] cls = "Equal" -> Same(a, b)
      [] cls = "NotEqual" -> Negate(Same(a, b))

\* Comparison._check_arguments: the exception it raises, or "none"
check_arguments(e) ==
    LET r == e.children[1]
        l == e.children[2]
    IN  IF l.cls \notin OperandClasses THEN "SyntaxError: Invalid arguments"
        ELSE IF r.cls \notin OperandClasses THEN "SyntaxError: Invalid arguments"
        ELSE IF l.cls = "NumberLiteral" /\ r.cls = "StringLiteral" THEN "SyntaxError: Mismatched operands"
        ELSE IF l.cls = "StringLiteral" /\ r.cls = "NumberLiteral" THEN "SyntaxError: Mismatched operands"
        ELSE "none"

\* a wrong "neg": the test "x not in pos" is left out
NotIn_all(node_set_pos, pos) == node_set_pos

\* [x for x in node_set_pos if x not in pos]
NotIn(node_set_pos, pos) == SelectSeq(node_set_pos, LAMBDA x : x \notin Range(pos))

\* pos = [x for x in node_set_pos if test[x]], neg = the rest; test[x] is
\* "true", "false" or "TypeError", and a TypeError aborts the comprehension
Partition(node_set_pos, test) ==
    IF \E i \in 1..Len(node_set_pos) : test[node_set_pos[i]] = "TypeError"
    THEN Error("TypeError")
    ELSE LET pos == SelectSeq(node_set_pos, LAMBDA x : test[x] = "true")
         IN  Pair(pos, NotIn(node_set_pos, pos))

\* the test of line 193 (and 231, 269, 307, 345, 383): "literal arguments only"
LiteralsOnly(l, r) == l.cls # "AttributeName" /\ l.cls # "AttributeName"

\* evaluate of GreaterThan, GreaterThanOrEqual, SmallerThan, SmallerThanOrEqual,
\* Equal and NotEqual: the six bodies differ in the operator only
Comparison_evaluate(e, node_set_pos, node_set_neg) ==
    IF check_arguments(e) # "none" THEN Error(check_arguments(e))
    ELSE
    LET r == e.children[1]
        l == e.children[2]
    IN  IF LiteralsOnly(l, r) THEN
            LET c == Compare(e.cls, l.value, r.value) IN
            IF c = "TypeError" THEN Error("TypeError")
            ELSE IF c = "true" THEN Pair(node_set_pos, node_set_neg)
            ELSE Pair(<<>>, node_set_pos)
        ELSE IF l.cls = "AttributeName" /\ r.cls = "AttributeName" THEN
            Partition(node_set_pos,
                      [x \in Nodes |-> IF HasAttr(x, l.value) /\ HasAttr(x, r.value)
                                        THEN Compare(e.cls, AttrVal(x, l.value), AttrVal(x, r.value))
                                        ELSE "false"])
        ELSE IF l.cls = "AttributeName" THEN
            Partition(node_set_pos,
                      [x \in Nodes |-> IF HasAttr(x, l.value)
                                        THEN Compare(e.cls, AttrVal(x, l.value), r.value)
                                        ELSE "false"])
        ELSE IF r.cls = "AttributeName" THEN
            Partition(node_set_pos,
                      [x \in Nodes |-> IF HasAttr(x, r.value)
                                        THEN Compare(e.cls, l.value, AttrVal(x, r.value))
                                        ELSE "false"])
        ELSE NoneResult

\* the string test of TextContains, TextStartsWith, TextEndsWith
TextTest(cls, s, val) ==
    CASE cls = "TextContains" -> contains(s, val)
      [] cls = "TextStartsWith" -> startswith(s, val)
      [] cls = "TextEndsWith" -> endswith(s, val)

\* evaluate of TextContains, TextStartsWith and TextEndsWith
Text_evaluate(e, node_set_pos, node_set_neg) ==
    IF Len(e.children) < 2 THEN Error("IndexError")
    ELSE
    LET c0 == e.children[1]
        c1 == e.children[2]
        second == c1.cls = "AttributeName" /\ c0.cls = "StringLiteral"
        first == c0.cls = "AttributeName" /\ c1.cls = "StringLiteral"
        atr == IF second THEN c1.value ELSE IF first THEN c0.value ELSE NoneVal
        val == IF second THEN c0.value ELSE IF first THEN c1.value ELSE NoneVal
        Holds(x) == HasAttr(x, atr) /\ TextTest(e.cls, attrs(x)[atr.s], val.s)
    IN  Pair(SelectSeq(node_set_pos, LAMBDA x : Holds(x)),
             SelectSeq(node_set_pos, LAMBDA x : ~Holds(x)))

\* the list o that SelectAll.evaluate builds (lines 92-95)
RECURSIVE Descendants(_)
Descendants(node_set_pos) ==
    IF node_set_pos = <<>> THEN <<>>
    ELSE find_all(Head(node_set_pos)) \o Descendants(Tail(node_set_pos))

\* a wrong SelectAll.evaluate: every node is enumerated with its descendants
SelectAll_evaluate_self(node_set_pos, node_set_neg) ==
    Pair(node_set_pos \o Descendants(node_set_pos), <<>>)

\* SelectAll.evaluate (and SelectStar.evaluate, which calls it)
SelectAll_evaluate(node_set_pos, node_set_neg) == Pair(Descendants(node_set_pos), <<>>)

SelectFromRootNode_evaluate(node_set_pos, node_set_neg) == Pair(node_set_pos, node_set_neg)

\* a wrong SelectHTMLTag.evaluate: the rejected input is passed on
SelectHTMLTag_evaluate_keep(e, node_set_pos, node_set_neg) ==
    Pair(SelectSeq(node_set_pos, LAMBDA x : name(x) = e.value.s), node_set_neg)

SelectHTMLTag_evaluate(e, node_set_pos, node_set_neg) ==
    Pair(SelectSeq(node_set_pos, LAMBDA x : name(x) = e.value.s), <<>>)

\* a wrong LogicalNot.evaluate: the selected input is dropped
LogicalNot_evaluate_drop(node_set_pos, node_set_neg) == Pair(node_set_neg, <<>>)

LogicalNot_evaluate(node_set_pos, node_set_neg) == Pair(node_set_neg, node_set_pos)

\* a wrong TextLength.evaluate: the input is passed through
TextLength_evaluate_pass(node_set_pos, node_set_neg) == Pair(node_set_pos, node_set_neg)

TextLength_evaluate(node_set_pos, node_set_neg) == Error("NotImplementedError")

\* the first child evaluated by LogicalAnd.evaluate (line 419) and the
\* second (line 420); likewise LogicalOr.evaluate (lines 437, 438)
FirstEvaluated(e) == e.children[1]

SecondEvaluated(e) == e.children[1]

RECURSIVE evaluate(_, _, _)
\* (a, b) = ...; (c, d) = ...: unpacking what the two evaluations returned
Combine(e, ab, cd) ==
    IF ab.kind = "error" THEN ab
    ELSE IF ab.kind # "pair" THEN Error("TypeError")
    ELSE IF cd.kind = "error" THEN cd
    ELSE IF cd.kind # "pair" THEN Error("TypeError")
    ELSE LET a == ab.pos
             b == ab.neg
             c == cd.pos
             d == cd.neg
             pos == IF e.cls = "LogicalAnd"
                    THEN SelectSeq(a, LAMBDA x : x \in Range(c))
                    ELSE Dedup(c \o a)
         IN  Pair(pos, Dedup(NotIn(a \o b \o c \o d, pos)))

\* LogicalAnd.evaluate and LogicalOr.evaluate
Logical_evaluate(e, node_set_pos, node_set_neg) ==
    IF Len(e.children) < 1 THEN Error("IndexError")
    ELSE Combine(e, evaluate(FirstEvaluated(e), node_set_pos, node_set_neg),
                    evaluate(SecondEvaluated(e), node_set_pos, node_set_neg))

\* the evaluate method of the class of e
evaluate(e, node_set_pos, node_set_neg) ==
    IF e.cls = "SelectFromRootNode" THEN SelectFromRootNode_evaluate(node_set_pos, node_set_neg)
    ELSE IF e.cls \in {"SelectAll", "SelectStar"} THEN SelectAll_evaluate(node_set_pos, node_set_neg)
    ELSE IF e.cls = "SelectHTMLTag" THEN SelectHTMLTag_evaluate(e, node_set_pos, node_set_neg)
    ELSE IF e.cls = "SelectText" THEN SelectText_evaluate(node_set_pos)
    ELSE IF e.cls = "SelectAttribute" THEN SelectAttribute_evaluate(e, node_set_pos)
    ELSE IF e.cls \in ComparisonClasses THEN Comparison_evaluate(e, node_set_pos, node_set_neg)
    ELSE IF e.cls \in {"LogicalAnd", "LogicalOr"} THEN Logical_evaluate(e, node_set_pos, node_set_neg)
    ELSE IF e.cls = "LogicalNot" THEN LogicalNot_evaluate(node_set_pos, node_set_neg)
    ELSE IF e.cls \in TextClasses THEN Text_evaluate(e, node_set_pos, node_set_neg)
    ELSE IF e.cls = "TextLength" THEN TextLength_evaluate(node_set_pos, node_set_neg)
    ELSE NoneResult

(***************************************************************************)
(* Documents of the model                                                  *)
(***************************************************************************)
sA == <<"a">>
sB == <<"b">>
sX == <<"x">>
sY == <<"y">>
s1 == <<"1">>
s2 == <<"2">>
s3 == <<"3">>
s5 == <<"5">>
sClass == <<"c", "l", "a", "s", "s">>

NoAttrs == [k \in {} |-> <<>>]

\* the kinds of node of the model: a tag name and an attribute mapping
AttrKinds ==
    { [name |-> tDiv, attrs |-> (sA :> s1) @@ (sB :> s2)],
      [name |-> tDiv, attrs |-> (sA :> s1) @@ (sB :> s3)],
      [name |-> tDiv, attrs |-> (sClass :> sX)],
      [name |-> tDiv, attrs |-> (sClass :> sY)] }

EvalKinds ==
    { [name |-> tDiv, attrs |-> (sA :> s1) @@ (sB :> s2)],
      [name |-> tDiv, attrs |-> (sA :> s1) @@ (sB :> s3)],
      [name |-> tDiv, attrs |-> (sClass :> sX)] }

TagKinds ==
    { [name |-> sA, attrs |-> NoAttrs],
      [name |-> sB, attrs |-> NoAttrs],
      [name |-> sA, attrs |-> (sX :> s1)] }

\* parent[x] = 0 for a top-level node; a parent precedes its children
Parents == {p \in [Nodes -> 0..NumNodes] : \A x \in Nodes : p[x] < x}

Flat == [x \in Nodes |-> 0]

DocsOf(kinds, parents) ==
    { [name |-> [x \in Nodes |-> k[x].name],
       attrs |-> [x \in Nodes |-> k[x].attrs],
       parent |-> p] : k \in [Nodes -> kinds], p \in parents }

\* the top-level nodes of the document, in document order
Roots(d) == SetToSeq({x \in Nodes : d.parent[x] = 0})

\* the (selected, rejected) pairs of the model: two disjoint lists of nodes
InputPairs ==
    { <<SetToSeq({x \in Nodes : f[x] = "pos"}), SetToSeq({x \in Nodes : f[x] = "neg"})>> :
        f \in [Nodes -> {"pos", "neg", "out"}] }

(***************************************************************************)
(* Queries of the model, as the token lists the tokenizer returns          *)
(***************************************************************************)
\* a quoted string token and an attribute token
Q(s) == <<"'">> \o s \o <<"'">>

At(s) == <<"@">> \o s

CompOps == {tGt, tGe, tLt, tLe, tEq, tNe}

\* *[ body ]
StarPred(body) == <<tStar, tLBrack>> \o body \o <<tRBrack>>

QueryAnd == StarPred(<<At(sA), tEq, Q(s1), tAnd, At(sB), tEq, Q(s2)>>)

QueryClass == StarPred(<<At(sClass), tEq, Q(sX)>>)

QueryAB == <<tSlash, sA, tSlash, sB>>

LengthCall == <<tLength, tLParen, At(sA), tRParen>>

LengthQueries ==
    { StarPred(LengthCall),
      StarPred(LengthCall \o <<tGt, s5>>),
      StarPred(<<At(sA), tEq>> \o LengthCall),
      StarPred(<<tNot, tLParen>> \o LengthCall \o <<tRParen>>),
      StarPred(LengthCall \o <<tAnd, tContains, tLParen, At(sA), tComma, Q(s1), tRParen>>),
      StarPred(<<tContains, tLParen, At(sA), tComma, Q(s1), tRParen, tOr>> \o LengthCall) }

\* a bare integer against a quoted string, in both orders
MixedQueries ==
    { StarPred(<<s5, op, Q(sA)>>) : op \in CompOps } \cup
    { StarPred(<<Q(sA), op, s5>>) : op \in CompOps }

Cmp == <<At(sA), tEq, Q(s1)>>

UnmatchedQueries ==
    { StarPred(<<tLParen>> \o Cmp),
      StarPred(<<tLBrace>> \o Cmp),
      StarPred(Cmp \o <<tRParen>>),
      StarPred(Cmp \o <<tRBrace>>),
      StarPred(<<tLParen>> \o Cmp \o <<tRBrace>>),
      StarPred(<<tLParen, tLParen>> \o Cmp \o <<tRParen>>),
      StarPred(<<tLParen>> \o Cmp \o <<tRParen, tRParen>>) }

PredicateQueries ==
    { StarPred(<<tLParen>> \o Cmp \o <<tRParen>>),
      StarPred(<<Q(s1), tEq, At(sA)>>),
      StarPred(<<At(sB), tGt, Q(s2), tAnd, At(sA), tGt, Q(s5)>>),
      StarPred(<<At(sB), tLe, Q(s2), tOr, At(sA), tGe, Q(s5)>>),
      StarPred(<<tContains, tLParen, At(sA), tComma, Q(s1), tRParen, tOr,
                 tStartsWith, tLParen, At(sB), tComma, Q(s2), tRParen>>),
      StarPred(<<tEndsWith, tLParen, At(sB), tComma, Q(s3), tRParen>>),
      StarPred(<<tNot, tLParen, At(sB), tEq, Q(s2), tRParen>>),
      StarPred(<<At(sB), tEq, Q(s2)>>) \o <<tLBrack, tNot, tLParen, At(sB), tEq, Q(s2), tRParen, tRBrack>>,
      StarPred(<<At(sB), tNe, Q(s2)>>) \o <<tLBrack, Q(s1), tEq, Q(s1), tRBrack>>,
      StarPred(<<At(sB), tLt, Q(s3)>>) \o <<tLBrack, Q(s1), tEq, Q(s2), tRBrack>>,
      StarPred(<<At(sA), tEq, At(sB)>>),
      StarPred(<<At(sB), tGt, s5>>),
      StarPred(<<At(sA)>>) }

\* the binary operators the tree builder has a node for
BinaryOps == CompOps \cup {tAnd, tOr}

\* *[X op Y] for operands X and Y, Y a quoted string or a bare integer
BinaryQueries ==
    { StarPred(<<X, op, Y>>) : X \in {At(sA), Q(s1)}, op \in BinaryOps, Y \in {Q(s1), s5} }

Queries ==
    {QueryAnd, QueryClass} \cup LengthQueries \cup MixedQueries \cup UnmatchedQueries
        \cup PredicateQueries \cup BinaryQueries

\* [not(length(@x))]
NotLength == <<tLBrack, tNot, tLParen, tLength, tLParen, At(sX), tRParen, tRParen, tRBrack>>

QueryText == <<tSlashSlash, sB, tSlash, tText, tLParen, tRParen>>

\* path queries with a text token: followed by ( ), by another token, by (
\* alone, and by nothing
TextQueries ==
    { QueryText,
      <<tText, tSlash, sA>>,
      <<tText, tLParen, sA>>,
      <<sA, tSlash, tText, tLParen>>,
      <<sA, tSlash, tText>> }

\* a[not(@x='1')]
QueryTagNot == <<sA, tLBrack, tNot, tLParen, At(sX), tEq, Q(s1), tRParen, tRBrack>>

\* a NOT predicate right after a tag step, after // and after *
StepNotQueries ==
    { QueryTagNot,
      <<tSlashSlash>> \o NotLength,
      <<tStar, tLBrack, tNot, tLParen, tContains, tLParen, At(sX), tComma, Q(s1), tRParen,
        tRParen, tRBrack>> }

PathQueries ==
    { QueryAB,
      <<tSlashSlash, sA>>,
      QueryText,
      <<tStar, At(sX)>> } \cup StepNotQueries

(***************************************************************************)
(* Expressions of the model, for evaluate called on a tree built by hand   *)
(***************************************************************************)
Operands ==
    { AttributeName(At(sA)), AttributeName(At(sB)),
      StringLiteral(Q(s1)), StringLiteral(Q(s2)), NumberLiteral(s2) }

Predicates ==
    { Expression("Equal", NoneVal, <<StringLiteral(Q(s1)), AttributeName(At(sA))>>),
      Expression("GreaterThan", NoneVal, <<StringLiteral(Q(s2)), AttributeName(At(sB))>>),
      Expression("TextContains", NoneVal, <<StringLiteral(Q(s3)), AttributeName(At(sB))>>),
      Expression("TextLength", NoneVal, <<AttributeName(At(sA))>>) }

Trees ==
    { Expression(cls, NoneVal, <<r, l>>) :
        cls \in ComparisonClasses \cup TextClasses, r \in Operands, l \in Operands } \cup
    { Expression(cls, NoneVal, <<q, p>>) :
        cls \in {"LogicalAnd", "LogicalOr"}, q \in Predicates, p \in Predicates } \cup
    { Expression("LogicalNot", NoneVal, <<p>>) : p \in Predicates } \cup
    Predicates

\* contains(@b, '3'), then the same NOT twice
NotTwice ==
    { <<p, Expression("LogicalNot", NoneVal, <<q>>), Expression("LogicalNot", NoneVal, <<q>>)>> :
        p \in {e \in Predicates : e.cls = "TextContains"}, q \in Predicates }

(***************************************************************************)
(* The state machine: compile the query, then evaluate the pipeline left   *)
(* to right                                                                *)
(***************************************************************************)
InitCommon ==
    /\ idx = 1
    /\ kind = "pair"
    /\ selected = initSel
    /\ rejected = initRej
    /\ inSel = <<>>
    /\ inRej = <<>>
    /\ err = "none"

\* a query with a predicate, run on the top-level nodes of a document
Init ==
    /\ doc \in DocsOf(AttrKinds, Parents)
    /\ tokens \in Queries
    /\ pipeline = <<>>
    /\ pc = "start"
    /\ initSel = Roots(doc)
    /\ initRej = <<>>
    /\ InitCommon

\* a path query with a text token, run on any (selected, rejected) of a
\* document without nesting
InitText ==
    /\ doc \in DocsOf(TagKinds, {Flat})
    /\ tokens \in TextQueries
    /\ pipeline = <<>>
    /\ pc = "start"
    /\ \E p \in InputPairs : initSel = p[1] /\ initRej = p[2]
    /\ InitCommon

\* a path query, run on any (selected, rejected)
InitPath ==
    /\ doc \in DocsOf(TagKinds, Parents)
    /\ tokens \in PathQueries
    /\ pipeline = <<>>
    /\ pc = "start"
    /\ \E p \in InputPairs : initSel = p[1] /\ initRej = p[2]
    /\ InitCommon

\* expressions built by hand, evaluated on any (selected, rejected)
InitEval ==
    /\ doc \in DocsOf(EvalKinds, {Flat})
    /\ tokens = <<>>
    /\ pipeline \in {<<e>> : e \in Trees} \cup NotTwice
    /\ pc = "compiled"
    /\ \E p \in InputPairs : initSel = p[1] /\ initRej = p[2]
    /\ InitCommon

\* nodes = XPATHSyntaxTree().xpath_to_syntax_tree(query)
Compile ==
    /\ pc = "start"
    /\ LET r == xpath_to_syntax_tree(tokens) IN
       IF r.err = "none"
       THEN /\ pipeline' = r.val
            /\ pc' = IF Len(r.val) = 0 THEN "done" ELSE "compiled"
            /\ err' = err
       ELSE /\ pipeline' = pipeline
            /\ pc' = "error"
            /\ err' = r.err
    /\ UNCHANGED <<doc, tokens, idx, kind, selected, rejected, inSel, inRej, initSel, initRej>>

\* one step of the left-to-right fold: (selected, rejected) = e.evaluate(selected, rejected)
Step ==
    /\ pc = "compiled"
    /\ kind = "pair"
    /\ idx <= Len(pipeline)
    /\ LET r == evaluate(pipeline[idx], selected, rejected) IN
       /\ inSel' = selected
       /\ inRej' = rejected
       /\ IF r.kind = "error"
          THEN /\ pc' = "error"
               /\ err' = r.err
               /\ UNCHANGED <<kind, selected, rejected>>
          ELSE /\ kind' = r.kind
               /\ selected' = r.pos
               /\ rejected' = r.neg
               /\ pc' = IF idx = Len(pipeline) THEN "done" ELSE "compiled"
               /\ err' = err
    /\ idx' = idx + 1
    /\ UNCHANGED <<doc, tokens, pipeline, initSel, initRej>>

Next == Compile \/ Step

NextEval == Step

Spec == Init /\ [][Next]_vars

SpecPath == InitPath /\ [][Next]_vars

SpecEval == InitEval /\ [][NextEval]_vars

SpecText == InitText /\ [][Next]_vars

(***************************************************************************)
(* Properties                                                              *)
(***************************************************************************)
\* the expression the last Step evaluated
LastEvaluated == pipeline[idx - 1]

\* the compiler raised: no pipeline was returned
CompileError == pc = "error" /\ idx = 1

SetOf(s) == {s[i] : i \in 1..Len(s)}

HasValue(x, key, v) == key \in DOMAIN attrs(x) /\ attrs(x)[key] = v

\* C1: the pipeline compiled from *[@a='1' and @b='2'] raises no error, and
\* its selected result includes every node fed to the predicate that has
\* a='1' and b='2' and excludes every one that has a='1' and b='3'.
C1_AndScenario ==
    tokens = QueryAnd =>
        /\ pc # "error"
        /\ pc = "done" =>
             \A x \in SetOf(inSel) :
                /\ (HasValue(x, sA, s1) /\ HasValue(x, sB, s2)) => x \in SetOf(selected)
                /\ (HasValue(x, sA, s1) /\ HasValue(x, sB, s3)) => x \notin SetOf(selected)

IsLiteral(e) == e.cls \in {"StringLiteral", "NumberLiteral"}

\* a comparison whose children are one AttributeName and one literal
AttributeAndLiteral(e) ==
    /\ e.cls \in ComparisonClasses
    /\ \/ e.children[1].cls = "AttributeName" /\ IsLiteral(e.children[2])
       \/ e.children[2].cls = "AttributeName" /\ IsLiteral(e.children[1])

\* node x carries the attribute of e and its value compares as e says with
\* the literal of e (children[2] is the left operand, children[1] the right)
ComparisonHolds(e, x) ==
    IF e.children[2].cls = "AttributeName"
    THEN /\ HasAttr(x, e.children[2].value)
         /\ Compare(e.cls, AttrVal(x, e.children[2].value), e.children[1].value) = "true"
    ELSE /\ HasAttr(x, e.children[1].value)
         /\ Compare(e.cls, e.children[2].value, AttrVal(x, e.children[1].value)) = "true"

\* C2: a comparison of one AttributeName and one literal, in either child
\* order, returns (pos, neg) with pos exactly the nodes of selected that carry
\* the attribute and for which the comparison holds, and neg the others.
C2_AttributeLiteralPartition ==
    (idx = 2 /\ AttributeAndLiteral(pipeline[1])) =>
        /\ pc = "done"
        /\ kind = "pair"
        /\ selected = SelectSeq(inSel, LAMBDA x : ComparisonHolds(pipeline[1], x))
        /\ rejected = SelectSeq(inSel, LAMBDA x : ~ComparisonHolds(pipeline[1], x))

\* what the child predicates P (left operand) and Q (right operand) of the
\* last evaluated expression return on the input it was given
OutP == evaluate(LastEvaluated.children[2], inSel, inRej)

OutQ == evaluate(LastEvaluated.children[1], inSel, inRej)

FourSets == SetOf(OutP.pos) \cup SetOf(OutP.neg) \cup SetOf(OutQ.pos) \cup SetOf(OutQ.neg)

\* C3: LogicalAnd runs both children on its input and selects exactly the
\* nodes both children select; it rejects the other nodes of the four
\* child output sets.
C3_AndIntersection ==
    (idx = 2 /\ pipeline[1].cls = "LogicalAnd" /\ OutP.kind = "pair" /\ OutQ.kind = "pair") =>
            /\ pc = "done"
            /\ kind = "pair"
            /\ SetOf(selected) = SetOf(OutP.pos) \cap SetOf(OutQ.pos)
            /\ SetOf(rejected) = FourSets \ (SetOf(OutP.pos) \cap SetOf(OutQ.pos))

\* C4: LogicalOr runs both children on its input and selects exactly the
\* nodes either child selects; it rejects the other nodes of the four child
\* output sets.
C4_OrUnion ==
    (idx = 2 /\ pipeline[1].cls = "LogicalOr" /\ OutP.kind = "pair" /\ OutQ.kind = "pair") =>
            /\ pc = "done"
            /\ kind = "pair"
            /\ SetOf(selected) = SetOf(OutP.pos) \cup SetOf(OutQ.pos)
            /\ SetOf(rejected) = FourSets \ (SetOf(OutP.pos) \cup SetOf(OutQ.pos))

PredicateClasses ==
    ComparisonClasses \cup TextClasses \cup {"LogicalAnd", "LogicalOr", "LogicalNot"}

\* the last Step evaluated a compiled predicate and it returned a pair
PredicateReturned ==
    /\ idx > 1
    /\ pc \in {"compiled", "done"}
    /\ kind = "pair"
    /\ LastEvaluated.cls \in PredicateClasses

\* C5 as stated: the two outputs of a compiled predicate are disjoint and
\* hold only nodes of the predicate's input selected.
C5_OutputsWithinSelected ==
    PredicateReturned =>
        /\ SetOf(selected) \cap SetOf(rejected) = {}
        /\ SetOf(selected) \cup SetOf(rejected) \subseteq SetOf(inSel)

\* C5 amended: the two outputs of a compiled predicate are disjoint and hold
\* only nodes of the predicate's input selected or input rejected.
C5_OutputsWithinInput ==
    PredicateReturned =>
        /\ SetOf(selected) \cap SetOf(rejected) = {}
        /\ SetOf(selected) \cup SetOf(rejected) \subseteq SetOf(inSel) \cup SetOf(inRej)

\* a predicate returned a selected node that was in its input rejected only
C5_Witness ==
    /\ PredicateReturned
    /\ inRej # <<>>
    /\ rejected # <<>>
    /\ \E x \in SetOf(selected) : x \notin SetOf(inSel)

\* the last Step evaluated a compiled predicate (it returned or raised)
PredicateEvaluated ==
    /\ idx > 1
    /\ LastEvaluated.cls \in PredicateClasses \cup {"TextLength"}

HasLengthChild(e) == \E i \in 1..Len(e.children) : e.children[i].cls = "TextLength"

\* C6 as stated: a query whose predicate contains length(@x) compiles, and
\* every evaluation of the predicate raises NotImplementedError.
C6_LengthAlwaysUnsupported ==
    (tLength \in SetOf(tokens) /\ pc # "start") =>
        /\ ~CompileError
        /\ PredicateEvaluated => (pc = "error" /\ err = "NotImplementedError")

\* C6 amended: the query whose predicate is length(@x) alone compiles to a
\* TextLength root, and every evaluation of a TextLength root raises
\* NotImplementedError; a comparison with a length operand raises the
\* invalid-arguments error, and a LogicalNot root returns a pair.
C6_LengthRootUnsupported ==
    /\ (tokens = StarPred(LengthCall) /\ pc # "start") =>
          (~CompileError /\ pipeline[2].cls = "TextLength")
    /\ (idx > 1 /\ LastEvaluated.cls = "TextLength") =>
          (pc = "error" /\ err = "NotImplementedError")
    /\ (idx > 1 /\ LastEvaluated.cls \in ComparisonClasses /\ HasLengthChild(LastEvaluated)) =>
          (pc = "error" /\ err = "SyntaxError: Invalid arguments")
    /\ (idx > 1 /\ LastEvaluated.cls = "LogicalNot") => (pc # "error" /\ kind = "pair")

\* the predicate length(@a) was compiled and evaluated
C6_Witness ==
    /\ tokens = StarPred(LengthCall)
    /\ idx = 3
    /\ LastEvaluated.cls = "TextLength"
    /\ err = "NotImplementedError"

\* C7: a comparison of a bare integer with a quoted string, in either order,
\* compiles, and every evaluation raises the type-mismatch error.
C7_MixedLiteralsMismatch ==
    (tokens \in MixedQueries /\ pc # "start") =>
        /\ ~CompileError
        /\ PredicateEvaluated => (pc = "error" /\ err = "SyntaxError: Mismatched operands")

\* the slice of the first predicate of the query, as line 549 cuts it
PredicateSlice ==
    LET i == CHOOSE k \in 1..Len(tokens) :
                 tokens[k] = tLBrack /\ \A m \in 1..(k - 1) : tokens[m] # tLBrack
    IN  SubSeq(tokens, i, IndexOfRBrack(tokens, i))

OpenerOf(t) == IF t = tRParen THEN tLParen ELSE IF t = tRBrace THEN tLBrace ELSE tLBrack

\* every closer of the slice closes the last open opener of its kind, and
\* no opener is left open
RECURSIVE BracketsMatchFrom(_, _, _)
BracketsMatchFrom(slice, i, open) ==
    IF i > Len(slice) THEN open = <<>>
    ELSE IF slice[i] \in l_b THEN BracketsMatchFrom(slice, i + 1, Append(open, slice[i]))
    ELSE IF slice[i] \in r_b THEN
         /\ open # <<>>
         /\ Last(open) = OpenerOf(slice[i])
         /\ BracketsMatchFrom(slice, i + 1, Front(open))
    ELSE BracketsMatchFrom(slice, i + 1, open)

BracketsMatch(slice) == BracketsMatchFrom(slice, 1, <<>>)

\* C8: a predicate slice with an unmatched bracket never compiles: the
\* compiler raises an error.
C8_UnmatchedBracketsRejected ==
    (pc # "start" /\ tLBrack \in SetOf(tokens) /\ ~BracketsMatch(PredicateSlice)) => CompileError

\* the candidates are two div nodes, the first with class 'x', the second
\* with class 'y'
TwoDivCandidates ==
    /\ Len(initSel) = 2
    /\ initRej = <<>>
    /\ name(initSel[1]) = tDiv /\ attrs(initSel[1]) = (sClass :> sX)
    /\ name(initSel[2]) = tDiv /\ attrs(initSel[2]) = (sClass :> sY)

RECURSIVE Below(_, _)
Below(x, y) == doc.parent[x] # 0 /\ (doc.parent[x] = y \/ Below(doc.parent[x], y))

RECURSIVE Fold(_, _)
Fold(pipe, r) ==
    IF pipe = <<>> \/ r.kind # "pair" THEN r
    ELSE Fold(Tail(pipe), evaluate(Head(pipe), r.pos, r.neg))

\* [SelectTag('a'), SelectTag('b')] built by hand
ManualAB == <<SelectHTMLTag(sA), SelectHTMLTag(sB)>>

\* C10: the pipeline compiled from /a/b returns, for every initial
\* (selected, rejected), the final pair that [SelectTag('a'), SelectTag('b')]
\* returns; after its first two steps it returns what SelectTag('a') returns.
C10_RoundTrip ==
    tokens = QueryAB =>
        /\ pc # "error"
        /\ idx = 3 => Pair(selected, rejected) = Fold(<<SelectHTMLTag(sA)>>, Pair(initSel, initRej))
        /\ pc = "done" => Pair(selected, rejected) = Fold(ManualAB, Pair(initSel, initRej))

\* /a/b ran to its end on candidates that hold a node named a, with a
\* rejected list that is not empty
C10_Witness ==
    /\ tokens = QueryAB
    /\ pc = "done"
    /\ Len(pipeline) = 4
    /\ initRej # <<>>
    /\ \E x \in SetOf(initSel) : name(x) = sA

\* the pair the first n expressions of the pipeline return on the initial pair
Before(n) == Fold(SubSeq(pipeline, 1, n), Pair(initSel, initRej))

\* the last Step evaluated a LogicalNot
NotEvaluated == idx > 1 /\ LastEvaluated.cls = "LogicalNot"

\* C11: for every pair (selected, rejected), LogicalNot.evaluate returns
\* (rejected, selected) and raises nothing, whatever its child is (the child
\* is not evaluated); a NOT applied to the output of a NOT that was applied
\* to the output of the expressions before it returns exactly the pair those
\* expressions produced.
C11_NotSwapsTwiceRestores ==
    /\ NotEvaluated =>
           /\ pc # "error"
           /\ kind = "pair"
           /\ selected = inRej
           /\ rejected = inSel
    /\ (NotEvaluated /\ idx > 2 /\ pipeline[idx - 2].cls = "LogicalNot") =>
           Pair(selected, rejected) = Before(idx - 3)

\* the second of two NOTs over length(@a) returned, the comparison before
\* the two having selected a node and rejected a node
C11_Witness ==
    /\ pipeline \in NotTwice
    /\ pc = "done"
    /\ idx = 4
    /\ LastEvaluated.cls = "LogicalNot"
    /\ LastEvaluated.children[1].cls = "TextLength"
    /\ selected # <<>>
    /\ rejected # <<>>

\* the leaf an operand token stands for
Leaf(t) ==
    IF startswith(t, <<"@">>) THEN AttributeName(t)
    ELSE IF startswith(t, <<"'">>) THEN StringLiteral(t)
    ELSE NumberLiteral(t)

\* the class of the node of a binary operator
ClassOfOperator(op) ==
    IF op = tGt THEN "GreaterThan"
    ELSE IF op = tGe THEN "GreaterThanOrEqual"
    ELSE IF op = tLt THEN "SmallerThan"
    ELSE IF op = tLe THEN "SmallerThanOrEqual"
    ELSE IF op = tEq THEN "Equal"
    ELSE IF op = tNe THEN "NotEqual"
    ELSE IF op = tAnd THEN "LogicalAnd"
    ELSE "LogicalOr"

\* C12: for a predicate [X op Y] with operands X, Y (@..., a quoted string,
\* a bare integer) and a binary operator op, the operands go straight to the
\* output of the infix-to-postfix pass: the postfix output is X, Y, op, and
\* the compiled predicate is one op node with Y as first child and X as
\* second child.
C12_OperandsStraightToOutput ==
    (tokens \in BinaryQueries /\ pc # "start") =>
        LET X == tokens[3]
            op == tokens[4]
            Y == tokens[5]
        IN  /\ predicate_to_postfix(PredicateSlice) = Ok(<<X, Y, op>>)
            /\ ~CompileError
            /\ pipeline[2] = Expression(ClassOfOperator(op), NoneVal, <<Leaf(Y), Leaf(X)>>)

\* the steps of a path of /, //, tag names and text tokens, where each text
\* gives one SelectText and takes the ( ) that follows it, if any, with it
RECURSIVE StepsOf(_, _)
StepsOf(toks, i) ==
    IF i > Len(toks) THEN <<>>
    ELSE IF toks[i] = tText THEN
         IF i + 2 <= Len(toks) /\ toks[i + 1] = tLParen /\ toks[i + 2] = tRParen
         THEN <<SelectText>> \o StepsOf(toks, i + 3)
         ELSE <<SelectText>> \o StepsOf(toks, i + 1)
    ELSE IF toks[i] = tSlash THEN <<SelectFromRootNode>> \o StepsOf(toks, i + 1)
    ELSE IF toks[i] = tSlashSlash THEN <<SelectAll>> \o StepsOf(toks, i + 1)
    ELSE IF IsTagName(toks[i]) THEN <<SelectHTMLTag(toks[i])>> \o StepsOf(toks, i + 1)
    ELSE StepsOf(toks, i + 1)

\* C13: the path compiler raises no error on a query with a text token and
\* appends exactly one SelectText for it, whether ( ) follows it or not and
\* also when text is the last or the second-to-last token: the pair is
\* consumed when it follows, and scanning resumes after text when it does not.
C13_TextNeverRaises ==
    (tokens \in TextQueries /\ pc # "start") =>
        /\ ~CompileError
        /\ pipeline = StepsOf(tokens, 1)

StepClasses == {"SelectAll", "SelectStar", "SelectHTMLTag"}

\* the last Step evaluated a LogicalNot that follows a step in the pipeline
NotAfterStep == NotEvaluated /\ idx > 2 /\ pipeline[idx - 2].cls \in StepClasses

\* C14: when a predicate whose root is LogicalNot is evaluated right after a
\* SelectAll, SelectStar or SelectHTMLTag step, it raises nothing, its
\* selected output is empty and its rejected output is the selected output
\* of that step, whatever the child of the NOT and the nodes' attributes are.
C14_NotAfterStepSelectsNothing ==
    NotAfterStep =>
        /\ pc # "error"
        /\ kind = "pair"
        /\ selected = <<>>
        /\ Before(idx - 2).kind = "pair"
        /\ rejected = Before(idx - 2).pos

\* a[not(@x='1')] ran on candidates named a, one with x='1' and one without x
C14_Witness ==
    /\ tokens = QueryTagNot
    /\ pc = "done"
    /\ NotAfterStep
    /\ \E x \in SetOf(inSel) : HasValue(x, sX, s1)
    /\ \E y \in SetOf(inSel) : sX \notin DOMAIN attrs(y)
    /\ initRej # <<>>

====
